---- MODULE Spec2Model ----
(***************************************************************************)
(* FC26 player clustering: the style-dimension reducers of api.py and      *)
(* train_model.py, the serving layer (startup load and request handlers)   *)
(* of api.py, and the training pipeline (main) of train_model.py.          *)
(*                                                                         *)
(* Numbers.  Attribute values are integers (0..100 by convention) or the   *)
(* missing value NaN that pandas gives an empty CSV cell.  A mean is a     *)
(* rational; it is kept exactly as a fixed-point integer counting units of *)
(* 1/Unit, so the style value 50.0 is 50 * Unit and 62.5 is 4500.          *)
(***************************************************************************)
EXTENDS Integers, Sequences, FiniteSets, TLC

VARIABLES
    df,             \* the DataFrame handed to a direct reducer call
    reduced,        \* the last direct reducer call and what it returned
    fs,             \* the files on disk: models/*.pkl, models/*.json, FC26.csv
    scaler,         \* api.py global
    kmeans,         \* api.py global
    cluster_labels, \* api.py global
    player_data,    \* api.py global
    phase,          \* "startup", "serving" or "aborted"
    resp,           \* the last HTTP response, with the handler's locals
    served,         \* a response sent earlier
    trainer,        \* train_model.py: the PlayerStyleTrainer and where main is
    explorer        \* explore_data.py: the run of the script and what it left

vars == <<df, reduced, fs, scaler, kmeans, cluster_labels, player_data, phase, resp,
          served, trainer, explorer>>

-----------------------------------------------------------------------------
(* Bounds of the checked instances *)

\* rows of a candidate table on disk
MaxRows == 3
\* the largest in-range top_n requested
MaxTopN == 3
\* rows of a table handed straight to a reducer
MaxCallRows == 1

-----------------------------------------------------------------------------
(* Numbers *)

\* Denominator of the fixed-point style values.  Every mean the bounded
\* instances take has a denominator dividing it: np.mean over 2, 3 or 4
\* candidates, a row-wise mean over at most 4 columns, a column mean over
\* at most 3 rows.
Unit == 8 * 9

\* float('nan'): an empty CSV cell, and whatever arithmetic makes of it.
NaN == 10^9

None == <<>>
Some(v) == <<v>>
IsNone(o) == o = <<>>
Get1(o) == o[1]

RECURSIVE SumSeq(_)
SumSeq(s) == IF s = <<>> THEN 0 ELSE Head(s) + SumSeq(Tail(s))

HasNaN(s) == \E i \in DOMAIN s : s[i] = NaN

\* np.mean(values) over a non-empty list of numbers: NaN if any is NaN.
NpMean(values) ==
    IF HasNaN(values) THEN NaN
    ELSE (SumSeq(values) * Unit) \div Len(values)

\* Series.mean() / DataFrame.mean(axis=1) over raw numbers: skipna=True,
\* NaN when nothing is left.
IsNum(x) == x # NaN
SkipNaMean(values) ==
    LET kept == SelectSeq(values, IsNum)
    IN  IF kept = <<>> THEN NaN ELSE (SumSeq(kept) * Unit) \div Len(kept)

\* Series.mean() over values that are already fixed-point.
SkipNaMeanFixed(values) ==
    LET kept == SelectSeq(values, IsNum)
    IN  IF kept = <<>> THEN NaN ELSE SumSeq(kept) \div Len(kept)

-----------------------------------------------------------------------------
(* The dimension -> candidate attribute tables *)

\* Python dicts iterate in insertion order.
Dimensions == <<"pace", "dribbling", "creativity", "finishing", "defense", "physicality">>

\* api.py create_style_dimensions
style_dims_single == <<
    <<"movement_acceleration", "movement_sprint_speed">>,
    <<"skill_dribbling", "skill_ball_control", "movement_agility", "movement_balance">>,
    <<"attacking_short_passing", "skill_long_passing", "mentality_vision", "skill_curve">>,
    <<"attacking_finishing", "power_shot_power", "mentality_positioning">>,
    <<"mentality_interceptions", "defending_standing_tackle",
      "defending_sliding_tackle", "mentality_aggression">>,
    <<"power_strength", "power_stamina", "power_jumping">> >>

\* api.py create_style_dimensions_batch
style_dims_batch == <<
    <<"movement_acceleration", "movement_sprint_speed", "acceleration", "sprint_speed">>,
    <<"skill_dribbling", "skill_ball_control", "movement_agility", "movement_balance",
      "dribbling", "ball_control", "agility", "balance">>,
    <<"attacking_short_passing", "skill_long_passing", "mentality_vision", "skill_curve",
      "short_passing", "long_passing", "vision", "curve">>,
    <<"attacking_finishing", "power_shot_power", "mentality_positioning",
      "finishing", "shot_power", "positioning">>,
    <<"mentality_interceptions", "defending_standing_tackle",
      "defending_sliding_tackle", "mentality_aggression",
      "interceptions", "standing_tackle", "sliding_tackle", "aggression">>,
    <<"power_strength", "power_stamina", "power_jumping",
      "strength", "stamina", "jumping">> >>

\* train_model.py PlayerStyleTrainer.STYLE_DIMENSIONS
STYLE_DIMENSIONS == <<
    <<"movement_acceleration", "movement_sprint_speed", "acceleration", "sprint_speed">>,
    <<"skill_dribbling", "skill_ball_control", "movement_agility", "movement_balance",
      "dribbling", "ball_control", "agility", "balance">>,
    <<"attacking_short_passing", "skill_long_passing", "mentality_vision", "skill_curve",
      "short_passing", "long_passing", "vision", "curve">>,
    <<"attacking_finishing", "power_shot_power", "mentality_positioning",
      "finishing", "shot_power", "positioning">>,
    <<"mentality_interceptions", "defending_standing_tackle",
      "defending_sliding_tackle", "mentality_aggression",
      "interceptions", "standing_tackle", "sliding_tackle", "aggression">>,
    <<"power_strength", "power_stamina", "power_jumping",
      "strength", "stamina", "jumping">> >>

-----------------------------------------------------------------------------
(* DataFrames.  A table is [attrcols, namecols, rows]; a row is            *)
(* [attrs |-> [attrcols -> cell], names |-> [namecols -> string]].         *)

NRows(t) == Len(t.rows)

\* Series.to_dict() of row r, as far as the reducer reads it: the reducer
\* only asks for attribute names.
RowToDict(t, r) == t.rows[r].attrs

\* dict.get(key, default)
\* A lookup that gives 0 for a missing key, which the default of a
\* dimension has to tell from dict.get.
DictGetOrZero(d, key, default) == IF key \in DOMAIN d THEN d[key] ELSE 0

DictGet(d, key, default) == IF key \in DOMAIN d THEN d[key] ELSE default

-----------------------------------------------------------------------------
(* The reducers *)

\* The six means handed back in the opposite order, which the order of
\* the components has to tell from the reducer's.
create_style_dimensions_reversed(attributes) ==
    [d \in 1..Len(style_dims_single) |->
        LET attrs == style_dims_single[Len(style_dims_single) + 1 - d]
            values == [j \in 1..Len(attrs) |-> DictGet(attributes, attrs[j], 50)]
        IN  NpMean(values)]

\* api.py create_style_dimensions: per dimension, np.mean over ALL the
\* listed attributes, an absent one read as 50.
create_style_dimensions(attributes) ==
    [d \in 1..Len(style_dims_single) |->
        LET attrs == style_dims_single[d]
            values == [j \in 1..Len(attrs) |-> DictGet(attributes, attrs[j], 50)]
        IN  NpMean(values)]

\* The per-dimension column of a batch reduction over candidate list attrs:
\* the row-wise mean over the columns the table has, or the default.
BatchColumn(t, attrs) ==
    LET InTable(col) == col \in t.attrcols
        available_attrs == SelectSeq(attrs, InTable)
    IN  IF available_attrs # <<>>
        THEN [r \in 1..NRows(t) |->
                SkipNaMean([j \in 1..Len(available_attrs) |->
                               t.rows[r].attrs[available_attrs[j]]])]
        ELSE [r \in 1..NRows(t) |-> 50 * Unit]

\* api.py create_style_dimensions_batch: np.array(feature_matrix).T, here
\* as a sequence of rows, each a 6-vector.
create_style_dimensions_batch(t) ==
    [r \in 1..NRows(t) |->
        [d \in 1..Len(style_dims_batch) |-> BatchColumn(t, style_dims_batch[d])[r]]]

-----------------------------------------------------------------------------
(* Training's reducer *)

\* available_attrs of train_model.py line 73 for dimension d
TrainAvailable(t, d) ==
    LET InTable(col) == col \in t.attrcols
    IN  SelectSeq(STYLE_DIMENSIONS[d], InTable)

\* The first dimension, in dict order, that has a column in the table; 0 if
\* there is none.
FirstFoundDimension(t) ==
    LET found == {d \in 1..Len(STYLE_DIMENSIONS) : TrainAvailable(t, d) # <<>>}
    IN  IF found = {} THEN 0 ELSE CHOOSE d \in found : \A e \in found : d <= e

\* feature_df[dimension] as the loop of engineer_features leaves it, for
\* row r.  feature_df starts as pd.DataFrame(), which has no rows: a scalar
\* 50.0 assigned while it is still empty makes a column of length 0, and the
\* first Series assigned afterwards gives the frame its index and fills the
\* columns made so far with NaN.  A 50.0 assigned after that is broadcast.
EngineeredCell(t, d, r) ==
    LET available_attrs == TrainAvailable(t, d)
    IN  IF available_attrs # <<>>
        THEN SkipNaMean([j \in 1..Len(available_attrs) |->
                            t.rows[r].attrs[available_attrs[j]]])
        ELSE IF d < FirstFoundDimension(t) THEN NaN ELSE 50 * Unit

\* The rows feature_df has after the loop: none if no dimension was found.
EngineeredRows(t) == IF FirstFoundDimension(t) = 0 THEN 0 ELSE NRows(t)

\* feature_df.fillna(feature_df.mean()): a NaN becomes its column's mean
\* over the rows that have a number, and stays NaN if no row has one.
FillNa(m) ==
    [r \in 1..Len(m) |->
        [d \in 1..Len(Dimensions) |->
            IF m[r][d] # NaN THEN m[r][d]
            ELSE SkipNaMeanFixed([q \in 1..Len(m) |-> m[q][d]])]]

\* train_model.py PlayerStyleTrainer.engineer_features: the feature frame,
\* as a sequence of rows.
engineer_features(t) ==
    FillNa([r \in 1..EngineeredRows(t) |->
               [d \in 1..Len(STYLE_DIMENSIONS) |-> EngineeredCell(t, d, r)]])

\* self.feature_columns after engineer_features
feature_columns(t) ==
    LET Found(d) == TrainAvailable(t, d) # <<>>
    IN  SelectSeq([d \in 1..Len(STYLE_DIMENSIONS) |-> d], Found)

-----------------------------------------------------------------------------
(* Input domains *)

\* The attribute values a cell of the bounded tables holds.
AttrValues == {0, 100}
Cells == AttrValues \cup {NaN}

\* Attribute columns the tables of the direct calls draw from: both
\* prefixed names of pace and an unprefixed one, and a prefixed name of
\* physicality, the last dimension.
ReducePool == {"movement_acceleration", "movement_sprint_speed", "acceleration",
               "power_strength"}

RowSeqs(rowset, maxrows) == UNION {[1..n -> rowset] : n \in 0..maxrows}

TablesOver(colsets, namecols, names, maxrows) ==
    UNION {{[attrcols |-> C, namecols |-> namecols, rows |-> rs] :
              rs \in RowSeqs([attrs : [C -> Cells], names : [namecols -> names]], maxrows)} :
           C \in colsets}

ReduceTables(maxrows) == TablesOver(SUBSET ReducePool, {}, {}, maxrows)

\* A record holding the four dribbling attributes and nothing else
DribblingTable ==
    [attrcols |-> {"skill_dribbling", "skill_ball_control", "movement_agility",
                   "movement_balance"},
     namecols |-> {},
     rows |-> << [attrs |-> [skill_dribbling |-> 90, skill_ball_control |-> 85,
                             movement_agility |-> 80, movement_balance |-> 75],
                  names |-> <<>>] >>]

-----------------------------------------------------------------------------
(* Direct calls of the reducers *)

NoCalls == [single |-> None, batch |-> None, engineered |-> None]

ServingUntouched ==
    UNCHANGED <<fs, scaler, kmeans, cluster_labels, player_data, phase, resp, served,
                trainer, explorer>>

\* create_style_dimensions(row.to_dict()) for row r of df
CallCreateStyleDimensions(r) ==
    /\ r \in 1..NRows(df)
    /\ reduced' = [reduced EXCEPT !.single =
                      Some([row |-> r, ret |-> create_style_dimensions(RowToDict(df, r))])]
    /\ UNCHANGED df
    /\ ServingUntouched

\* create_style_dimensions_batch(df)
CallCreateStyleDimensionsBatch ==
    /\ reduced' = [reduced EXCEPT !.batch = Some(create_style_dimensions_batch(df))]
    /\ UNCHANGED df
    /\ ServingUntouched

\* trainer.engineer_features(df)
CallEngineerFeatures ==
    /\ reduced' = [reduced EXCEPT !.engineered = Some(engineer_features(df))]
    /\ UNCHANGED df
    /\ ServingUntouched

NoTable == [attrcols |-> {}, namecols |-> {}, rows |-> <<>>]
NoFiles ==
    [scaler |-> None, kmeans |-> None, labels |-> None, feature_info |-> None, csv |-> None]
NoResponse == [op |-> "none", status |-> 0]
\* No training process
NoTrainer == [pc |-> "none"]
\* No exploration script running
NoExplorer == [pc |-> "none"]

InitReduce ==
    /\ df \in ReduceTables(MaxCallRows) \cup {DribblingTable}
    /\ reduced = NoCalls
    /\ fs = NoFiles
    /\ scaler = None
    /\ kmeans = None
    /\ cluster_labels = None
    /\ player_data = None
    /\ phase = "startup"
    /\ resp = NoResponse
    /\ served = None
    /\ trainer = NoTrainer
    /\ explorer = NoExplorer

NextReduce ==
    \/ \E r \in 1..MaxCallRows : CallCreateStyleDimensions(r)
    \/ CallCreateStyleDimensionsBatch
    \/ CallEngineerFeatures

SpecReduce == InitReduce /\ [][NextReduce]_vars

-----------------------------------------------------------------------------
(* Strings are sequences of one-character strings.                         *)

\* str.lower() on the characters the bounded names and queries use
Lower(c) == CASE c = "A" -> "a" [] c = "B" -> "b" [] OTHER -> c

\* re.compile(pat) raises re.error: of the characters used here, "(" opens
\* a group that nothing closes.
RegexError(pat) == \E i \in 1..Len(pat) : pat[i] = "("

\* One pattern character against one text character under re.IGNORECASE:
\* "." stands for any character, anything else for itself.
CharMatches(p, c) == p = "." \/ Lower(p) = Lower(c)

\* pattern.search(text) is not None
RegexSearch(pat, text) ==
    \E off \in 0..(Len(text) - Len(pat)) :
        \A i \in 1..Len(pat) : CharMatches(pat[i], text[off + i])

\* player_data[name_col].str.contains(pat, case=False, na=False): the
\* pattern is a regular expression (regex=True is the default).
StrContains(t, name_col, pat) ==
    [r \in 1..NRows(t) |-> RegexSearch(pat, t.rows[r].names[name_col])]

MaskAny(mask) == \E r \in DOMAIN mask : mask[r]

\* player_data[player_mask].iloc[0]: the first row the mask selects
FirstSelected(mask) == CHOOSE r \in DOMAIN mask : mask[r] /\ \A q \in 1..(r - 1) : ~mask[q]

\* api.py lines 1024 and 1072
name_columns == <<"short_name", "name", "long_name", "player_name">>

\* The loop of lines 1028-1035 from position k on, with the mask of the
\* last column looked at so far: [mask, name_col_used], name_col_used ""
\* standing for None and mask <<>> for a mask that is still None.
RECURSIVE NameLoop(_, _, _, _)
NameLoop(t, pat, k, last) ==
    IF k > Len(name_columns) THEN [mask |-> last, name_col_used |-> ""]
    ELSE IF name_columns[k] \in t.namecols
         THEN LET player_mask == StrContains(t, name_columns[k], pat)
              IN  IF MaskAny(player_mask)
                  THEN [mask |-> Some(player_mask), name_col_used |-> name_columns[k]]
                  ELSE NameLoop(t, pat, k + 1, Some(player_mask))
         ELSE NameLoop(t, pat, k + 1, last)

\* The lookup both handlers start with: "error" when str.contains raises,
\* "not_found" for the HTTPException(404), else the column and the row.
LookupPlayer(t, pat) ==
    IF t.namecols # {} /\ RegexError(pat) THEN [outcome |-> "error"]
    ELSE LET found == NameLoop(t, pat, 1, None)
         IN  IF IsNone(found.mask) \/ ~MaskAny(Get1(found.mask))
             THEN [outcome |-> "not_found"]
             ELSE [outcome |-> "found",
                   name_col_used |-> found.name_col_used,
                   row |-> FirstSelected(Get1(found.mask))]

-----------------------------------------------------------------------------
(* Scaler and cluster model *)

\* The scaler states of the bounded instances: [mean_, scale_], mean_ in
\* fixed-point style units.
ScalerStates == {
    [mean_ |-> <<50 * Unit, 50 * Unit, 50 * Unit, 50 * Unit, 50 * Unit, 50 * Unit>>,
     scale_ |-> <<1, 1, 1, 1, 1, 1>>],
    [mean_ |-> <<40 * Unit, 50 * Unit, 50 * Unit, 50 * Unit, 50 * Unit, 60 * Unit>>,
     scale_ |-> <<2, 1, 1, 1, 1, 1>>] }

\* Standardized values count units of 1/(Unit * ScaleDen), ScaleDen the
\* least common multiple of the scale_ entries in use, so that dividing by
\* scale_ is exact.
ScaleDen ==
    LET scales == {sc.scale_[d] : sc \in ScalerStates, d \in 1..6}
        Common(n) == \A x \in scales : n % x = 0
    IN  CHOOSE n \in 1..100 : Common(n) /\ \A m \in 1..(n - 1) : ~Common(m)

One == Unit * ScaleDen

\* StandardScaler.transform on one vector: (x - mean_) / scale_, NaN kept.
Transform(sc, x) ==
    [d \in 1..Len(x) |->
        IF x[d] = NaN THEN NaN ELSE ((x[d] - sc.mean_[d]) * ScaleDen) \div sc.scale_[d]]

\* A query standardized with another scaler state than the one handed in,
\* which the use of one scaler has to tell from the handler's transform.
PlayerScaledByOtherScaler(sc, player_features) ==
    Transform(CHOOSE other \in ScalerStates : other # sc, player_features)

\* scaler.transform(player_features.reshape(1, -1)) of find_similar_players
PlayerScaled(sc, player_features) == Transform(sc, player_features)

\* scaler.transform(all_features) of find_similar_players
AllScaled(sc, all_features) ==
    [r \in 1..Len(all_features) |-> Transform(sc, all_features[r])]

\* The squared Euclidean distance of two standardized vectors, NaN if a
\* component is NaN.  np.linalg.norm is its square root; only the order of
\* the norms is ever used, and squares of norms order as the norms do.
NormSq(u, v) ==
    IF HasNaN(u) \/ HasNaN(v) THEN NaN
    ELSE SumSeq([d \in 1..Len(u) |-> (u[d] - v[d]) * (u[d] - v[d])])

\* kmeans.predict on one standardized vector: the index (from 0) of the
\* nearest centroid, the lowest index on a tie.
Predict(km, x) ==
    LET K == Len(km.cluster_centers_)
        dist(k) == NormSq(km.cluster_centers_[k + 1], x)
    IN  CHOOSE k \in 0..(K - 1) :
            \A j \in 0..(K - 1) : dist(k) < dist(j) \/ (dist(k) = dist(j) /\ k <= j)

\* train_model.py CLUSTER_LABELS
CLUSTER_LABELS ==
    [i \in 0..5 |->
        <<"Creative Playmaker", "Ball Winning Midfielder", "Explosive Winger",
          "Target Man", "Defensive Center Back", "Box-to-Box Midfielder">>[i + 1]]

\* str(i) for a small non-negative int
Str(i) == <<"0", "1", "2", "3", "4", "5", "6", "7", "8", "9">>[i + 1]

-----------------------------------------------------------------------------
(* The serving layer: startup *)

\* What the server has no hand in: the direct calls and the training run
Offline == UNCHANGED <<df, reduced, trainer, explorer>>

ReducerUntouched == Offline /\ UNCHANGED served

\* A startup that swallows the missing file and serves with what it has,
\* which the abort of startup has to tell from load_models.
LoadModelsCarryingOn ==
    /\ phase = "startup"
    /\ scaler' = fs.scaler
    /\ kmeans' = fs.kmeans
    /\ cluster_labels' = fs.labels
    /\ player_data' = fs.csv
    /\ phase' = "serving"
    /\ UNCHANGED <<fs, resp, df, reduced, trainer, served, explorer>>

\* load_models: the four loads in order; the first missing file raises
\* FileNotFoundError, which is re-raised and ends startup, with the globals
\* assigned so far left as they are.  Nothing loaded is compared with
\* anything else.
LoadModels ==
    /\ phase = "startup"
    /\ scaler' = fs.scaler
    /\ kmeans' = IF IsNone(fs.scaler) THEN kmeans ELSE fs.kmeans
    /\ cluster_labels' =
          IF IsNone(fs.scaler) \/ IsNone(fs.kmeans) THEN cluster_labels ELSE fs.labels
    /\ player_data' =
          IF IsNone(fs.scaler) \/ IsNone(fs.kmeans) \/ IsNone(fs.labels)
          THEN player_data ELSE fs.csv
    /\ phase' =
          IF IsNone(fs.scaler) \/ IsNone(fs.kmeans) \/ IsNone(fs.labels) \/ IsNone(fs.csv)
          THEN "aborted" ELSE "serving"
    /\ UNCHANGED <<fs, resp>>
    /\ ReducerUntouched

\* A handler that writes the cluster of the row it looked at into the
\* candidate table, which the frame of the handlers has to tell from what
\* they do.
LoadedButTable ==
    /\ UNCHANGED <<fs, scaler, kmeans, cluster_labels, phase>>
    /\ player_data' = Some([Get1(player_data) EXCEPT !.attrcols = @ \cup {"cluster"}])

Loaded == UNCHANGED <<fs, scaler, kmeans, cluster_labels, player_data, phase>>

-----------------------------------------------------------------------------
(* The serving layer: request handlers.  A handler has no await inside, so *)
(* it runs as one step.                                                    *)

Min(a, b) == IF a <= b THEN a ELSE b

\* The server has started and the event loop is free to run a handler.
Idle == phase = "serving" /\ resp = NoResponse

\* The response goes out and the event loop is free again.  A /cluster
\* response may be kept, to be held against a later one.
SendResponse ==
    /\ phase = "serving"
    /\ resp # NoResponse
    /\ resp' = NoResponse
    /\ served' \in IF resp.op = "cluster" THEN {served, Some(resp)} ELSE {served}
    /\ Loaded
    /\ Offline

\* A 500 goes out and is kept, to be held against what is served after it.
SendFailure ==
    /\ phase = "serving"
    /\ resp # NoResponse
    /\ resp.status = 500
    /\ resp' = NoResponse
    /\ served' = Some(resp)
    /\ Loaded
    /\ Offline

\* An HTTPException wrapped like any other exception, which the status of
\* a lookup that finds nothing has to tell from the handlers' re-raise.
ExceptHTTPExceptionRewrapped(status_code) == 500

\* except HTTPException: raise -- the status the handler raised goes out.
ExceptHTTPException(status_code) == status_code

\* SimilarPlayerRequest: player_name min_length=1, top_n ge=1 le=20.
\* FastAPI answers 422 without calling the handler otherwise.
ValidSimilarPlayerRequest(request) ==
    /\ Len(request.player_name) >= 1
    /\ request.top_n >= 1
    /\ request.top_n <= 20

\* A descending order, which the ordering of the result has to tell from
\* the order of np.argsort.
SortsBeforeDescending(x, y) == y # NaN /\ (x = NaN \/ y < x)

\* The order numpy sorts in: numbers ascending, NaN after every number.
SortsBefore(x, y) == x # NaN /\ (y = NaN \/ x < y)

\* np.argsort(distances), as row numbers from 1.  The default kind is
\* quicksort, which is not stable: equal distances come out in an order
\* that depends on the numpy build, so every sorted order is possible.
ArgSorts(distances) ==
    LET n == Len(distances)
    IN  {p \in [1..n -> 1..n] :
            /\ \A i, j \in 1..n : i # j => p[i] # p[j]
            /\ \A i, j \in 1..n : i < j => ~SortsBefore(distances[p[j]], distances[p[i]])}

\* A slice [:top_n] that keeps the nearest entry, which the length of the
\* result has to tell from the slice of the handler.
SliceSimilarKeepNearest(order, top_n) == SubSeq(order, 1, Min(top_n, Len(order)))

\* np.argsort(distances)[1:top_n + 1], given the sorted order
SliceSimilar(order, top_n) == SubSeq(order, 2, Min(top_n + 1, Len(order)))

\* POST /similar_players
FindSimilarPlayers(player_name, top_n) ==
    /\ Idle
    /\ LET request == [player_name |-> player_name, top_n |-> top_n]
           t == Get1(player_data)
           found == LookupPlayer(t, player_name)
       IN  IF ~ValidSimilarPlayerRequest(request)
           THEN resp' = [op |-> "similar_players", req |-> request, status |-> 422]
           ELSE IF found.outcome = "error"
           THEN resp' = [op |-> "similar_players", req |-> request, status |-> 500]
           ELSE IF found.outcome = "not_found"
           THEN resp' = [op |-> "similar_players", req |-> request,
                         status |-> ExceptHTTPException(404)]
           ELSE LET player_features == create_style_dimensions(RowToDict(t, found.row))
                    player_scaled == PlayerScaled(Get1(scaler), player_features)
                    all_features == create_style_dimensions_batch(t)
                    all_scaled == AllScaled(Get1(scaler), all_features)
                    distances == [r \in 1..NRows(t) |-> NormSq(all_scaled[r], player_scaled)]
                IN  \E order \in ArgSorts(distances) :
                        LET similar_indices == SliceSimilar(order, top_n)
                            similar_names ==
                                [i \in 1..Len(similar_indices) |->
                                    t.rows[similar_indices[i]].names[found.name_col_used]]
                        IN  resp' = [op |-> "similar_players", req |-> request,
                                     status |-> 200,
                                     body |-> [similar_players |-> similar_names],
                                     locals |-> [name_col_used |-> found.name_col_used,
                                                 player_row |-> found.row,
                                                 player_features |-> player_features,
                                                 player_scaled |-> player_scaled,
                                                 all_scaled |-> all_scaled,
                                                 distances |-> distances,
                                                 similar_indices |-> similar_indices]]
    /\ Loaded
    /\ ReducerUntouched

\* cluster_labels[str(cluster_id)] raises KeyError for a key the map lacks;
\* kmeans.predict raises ValueError on NaN.  Both end as a 500.
PredictionFails(features_scaled) ==
    \/ HasNaN(features_scaled)
    \/ Str(Predict(Get1(kmeans), features_scaled)) \notin DOMAIN Get1(cluster_labels)

\* GET /player/{player_name}.  The bounded tables have none of the columns
\* age, overall, player_positions, positions, so these come back as None.
GetPlayerProfile(player_name) ==
    /\ Idle
    /\ LET request == [player_name |-> player_name]
           t == Get1(player_data)
           found == LookupPlayer(t, player_name)
       IN  IF found.outcome = "error"
           THEN resp' = [op |-> "player", req |-> request, status |-> 500]
           ELSE IF found.outcome = "not_found"
           THEN resp' = [op |-> "player", req |-> request,
                         status |-> ExceptHTTPException(404)]
           ELSE LET features == create_style_dimensions(RowToDict(t, found.row))
                    features_scaled == Transform(Get1(scaler), features)
                    cluster_id == Predict(Get1(kmeans), features_scaled)
                IN  IF PredictionFails(features_scaled)
                    THEN resp' = [op |-> "player", req |-> request, status |-> 500]
                    ELSE resp' = [op |-> "player", req |-> request, status |-> 200,
                                  body |-> [name |-> t.rows[found.row].names[found.name_col_used],
                                            age |-> None, overall |-> None, positions |-> None,
                                            cluster_id |-> cluster_id,
                                            style |-> Get1(cluster_labels)[Str(cluster_id)]],
                                  locals |-> [name_col_used |-> found.name_col_used,
                                              player_row |-> found.row,
                                              features |-> features,
                                              features_scaled |-> features_scaled]]
    /\ Loaded
    /\ ReducerUntouched

\* A request model without the field power_strength, which the agreement
\* of /cluster with /player has to tell from PlayerAttributes.
PlayerAttributesFieldsWithoutStrength ==
    {"movement_acceleration", "movement_sprint_speed",
     "skill_dribbling", "skill_ball_control", "movement_agility", "movement_balance",
     "attacking_short_passing", "skill_long_passing", "mentality_vision", "skill_curve",
     "attacking_finishing", "power_shot_power", "mentality_positioning",
     "mentality_interceptions", "defending_standing_tackle", "defending_sliding_tackle",
     "mentality_aggression", "power_stamina", "power_jumping"}

\* The fields of PlayerAttributes, all float, default 50, ge=0, le=100
PlayerAttributesFields ==
    {"movement_acceleration", "movement_sprint_speed",
     "skill_dribbling", "skill_ball_control", "movement_agility", "movement_balance",
     "attacking_short_passing", "skill_long_passing", "mentality_vision", "skill_curve",
     "attacking_finishing", "power_shot_power", "mentality_positioning",
     "mentality_interceptions", "defending_standing_tackle", "defending_sliding_tackle",
     "mentality_aggression", "power_strength", "power_stamina", "power_jumping"}

\* Only the declared fields are validated; a key the model does not
\* declare is ignored.
ValidPlayerAttributes(json) ==
    \A f \in (DOMAIN json) \cap PlayerAttributesFields : json[f] >= 0 /\ json[f] <= 100

\* Defaults that wear off once a response has been kept, which the
\* independence of the requests has to tell from attributes.dict().
AttributesDictWearingOff(json) ==
    [f \in PlayerAttributesFields |->
        IF f \in DOMAIN json THEN json[f] ELSE IF IsNone(served) THEN 50 ELSE 0]

\* attributes.dict(): every field, the ones the body left out at 50
AttributesDict(json) ==
    [f \in PlayerAttributesFields |-> IF f \in DOMAIN json THEN json[f] ELSE 50]

\* POST /cluster
PredictCluster(json) ==
    /\ Idle
    /\ IF ~ValidPlayerAttributes(json)
       THEN resp' = [op |-> "cluster", req |-> json, status |-> 422]
       ELSE LET features == create_style_dimensions(AttributesDict(json))
                features_scaled == Transform(Get1(scaler), features)
                cluster_id == Predict(Get1(kmeans), features_scaled)
            IN  IF PredictionFails(features_scaled)
                THEN resp' = [op |-> "cluster", req |-> json, status |-> 500]
                ELSE resp' = [op |-> "cluster", req |-> json, status |-> 200,
                              body |-> [cluster_id |-> cluster_id,
                                        style |-> Get1(cluster_labels)[Str(cluster_id)]],
                              locals |-> [features |-> features,
                                          features_scaled |-> features_scaled]]
    /\ Loaded
    /\ ReducerUntouched

\* GET /health
HealthCheck ==
    /\ Idle
    /\ resp' = [op |-> "health", req |-> <<>>, status |-> 200,
                body |-> [status |-> "ok",
                          models_loaded |-> ~IsNone(scaler) /\ ~IsNone(kmeans),
                          total_players |-> IF ~IsNone(player_data)
                                            THEN NRows(Get1(player_data)) ELSE 0]]
    /\ Loaded
    /\ ReducerUntouched

\* GET /clusters
GetClusters ==
    /\ Idle
    /\ resp' = [op |-> "clusters", req |-> <<>>, status |-> 200, body |-> Get1(cluster_labels)]
    /\ Loaded
    /\ ReducerUntouched

-----------------------------------------------------------------------------
(* The artifacts and requests of the bounded instances *)

\* One standardized unit along dimension d, times v
Along(d, v) == [e \in 1..6 |-> IF e = d THEN v * One ELSE 0]

\* A fitted KMeans with six centroids in standardized space
SixCentroids ==
    [cluster_centers_ |-> <<Along(1, 0), Along(1, 1), Along(1, -1),
                            Along(2, 1), Along(6, 1), Along(6, -1)>>]

\* A label file whose names are one place off their indices, which the
\* round trip of the label map has to tell from cluster_labels.json.
LabelFileShifted(n) ==
    [key \in {Str(i) : i \in 0..(n - 1)} |->
        CLUSTER_LABELS[((CHOOSE i \in 0..(n - 1) : Str(i) = key) + 1) % n]]

\* cluster_labels.json as json.dump writes a dict with int keys: the keys
\* become strings.  LabelFile(6) is what save_artifacts writes.
LabelFile(n) == [key \in {Str(i) : i \in 0..(n - 1)} |-> CLUSTER_LABELS[CHOOSE i \in 0..(n - 1) : Str(i) = key]]

StandardScaler1 == CHOOSE sc \in ScalerStates : sc.scale_[1] = 1
StandardScaler2 == CHOOSE sc \in ScalerStates : sc.scale_[1] = 2

\* feature_info.json as save_artifacts writes it after training on t
FeatureInfo(t) ==
    [feature_columns |-> feature_columns(t), style_dimensions |-> STYLE_DIMENSIONS]

GoodFiles(sc, t) ==
    [scaler |-> Some(sc), kmeans |-> Some(SixCentroids), labels |-> Some(LabelFile(6)),
     feature_info |-> Some(FeatureInfo(t)), csv |-> Some(t)]

\* Tables for similarity search: one name column, short_name, row r named
\* by its position, so that a query selects a known row.
IndexNames == << <<"a">>, <<"b">>, <<"a", "b">>, <<"b", "a">> >>
IndexName(r) == IndexNames[((r - 1) % Len(IndexNames)) + 1]

SimilarityTables(cols, values, maxrows) ==
    {[attrcols |-> cols, namecols |-> {"short_name"},
      rows |-> [r \in 1..Len(cells) |->
                   [attrs |-> cells[r], names |-> [c \in {"short_name"} |-> IndexName(r)]]]] :
        cells \in RowSeqs([cols -> values], maxrows)}

\* The three-player scenario: with mean_ 50 and scale_ 1, A, B and C
\* standardize to 0, to 1 along pace and to 5 along physicality.
ScenarioTable ==
    [attrcols |-> {"movement_acceleration", "power_strength"},
     namecols |-> {"short_name"},
     rows |-> << [attrs |-> [movement_acceleration |-> 50, power_strength |-> 50],
                  names |-> [short_name |-> <<"a">>]],
                 [attrs |-> [movement_acceleration |-> 51, power_strength |-> 50],
                  names |-> [short_name |-> <<"b">>]],
                 [attrs |-> [movement_acceleration |-> 50, power_strength |-> 55],
                  names |-> [short_name |-> <<"a", "b">>]] >>]

SimilarityFiles(maxrows) ==
    {GoodFiles(StandardScaler1, t) :
        t \in SimilarityTables({"acceleration"}, {0, 50, 100, NaN}, maxrows)
              \cup SimilarityTables({"movement_acceleration"}, Cells, maxrows)
              \cup {ScenarioTable}}
    \cup {GoodFiles(StandardScaler2, t) :
        t \in SimilarityTables({"movement_acceleration", "power_strength"}, AttrValues, maxrows)}
    \cup {GoodFiles(StandardScaler1, t) :
        t \in SimilarityTables({"movement_acceleration"}, {50, 101}, maxrows)}

\* Tables for name lookup: any names in the name columns they have, and
\* one attribute column whose value differs from row to row.
NamePool == {<<"a">>, <<"b", ".">>}
NameColumnSets == {{}, {"long_name"}, {"player_name"}, {"short_name", "long_name"},
                   {"name", "short_name"}, {"name", "player_name"}}
IndexValue(r) == 10 * r

LookupTables(maxrows) ==
    UNION {{[attrcols |-> {"movement_acceleration"}, namecols |-> namecols,
             rows |-> [r \in 1..Len(names) |->
                          [attrs |-> [c \in {"movement_acceleration"} |-> IndexValue(r)],
                           names |-> names[r]]]] :
              names \in RowSeqs([namecols -> NamePool], maxrows)} :
           namecols \in NameColumnSets}

LookupFiles(maxrows) == {GoodFiles(StandardScaler1, t) : t \in LookupTables(maxrows)}

\* Artifact sets for startup: each file there or missing, and a label map
\* with five entries beside the six-centroid model.
LoadFiles ==
    {[scaler |-> sc, kmeans |-> km, labels |-> lb, feature_info |-> None, csv |-> tb] :
        sc \in {None, Some(StandardScaler2)},
        km \in {None, Some(SixCentroids)},
        lb \in {None, Some(LabelFile(6)), Some(LabelFile(5))},
        tb \in {None, Some(ScenarioTable)}}

Queries == {<<"a">>, <<"B">>, <<"a", "b">>, <<".">>, <<"(">>, <<"b", "b">>}
TopNs == 0..MaxTopN \cup {21}

BodyFields == {"movement_acceleration", "power_strength"}
BodyValues == {-1, 0, 100, 101}
ClusterBodies == UNION {[F -> BodyValues] : F \in SUBSET BodyFields}

-----------------------------------------------------------------------------
(* The serving specification *)

Booting ==
    /\ scaler = None
    /\ kmeans = None
    /\ cluster_labels = None
    /\ player_data = None
    /\ phase = "startup"
    /\ resp = NoResponse
    /\ df = NoTable
    /\ reduced = NoCalls
    /\ served = None
    /\ trainer = NoTrainer
    /\ explorer = NoExplorer

\* Every handler, over artifact sets that load or fail to load.
Init == fs \in LoadFiles /\ Booting

Next ==
    \/ LoadModels
    \/ HealthCheck
    \/ GetClusters
    \/ \E json \in ClusterBodies : PredictCluster(json)
    \/ \E q \in Queries \cup {<<>>}, n \in TopNs : FindSimilarPlayers(q, n)
    \/ \E q \in Queries : GetPlayerProfile(q)
    \/ SendResponse
    \/ SendFailure

Spec == Init /\ [][Next]_vars

\* The two handlers that look a player up by name.
NextByName ==
    \/ LoadModels
    \/ \E q \in Queries \cup {<<>>}, n \in TopNs : FindSimilarPlayers(q, n)
    \/ \E q \in Queries : GetPlayerProfile(q)
    \/ SendResponse

\* ... over tables that vary in their attribute columns and values
InitSimilar == fs \in SimilarityFiles(MaxRows) /\ Booting
SpecSimilar == InitSimilar /\ [][NextByName]_vars

\* ... over tables that vary in their name columns and names
InitLookup == fs \in LookupFiles(MaxRows) /\ Booting
SpecLookup == InitLookup /\ [][NextByName]_vars

\* /player/{name} and /cluster side by side: tables whose rows hold both
\* attributes, one of them, or an unprefixed column the request model does
\* not know, and bodies made of the values such rows hold.
ProfileFiles(maxrows) ==
    {GoodFiles(StandardScaler2, t) :
        t \in SimilarityTables({"movement_acceleration", "power_strength"}, AttrValues, maxrows)}
    \cup {GoodFiles(StandardScaler1, t) :
        t \in SimilarityTables({"movement_acceleration"}, {0, 100, 101}, maxrows)
              \cup SimilarityTables({"acceleration"}, AttrValues, maxrows)}

ProfileBodies ==
    UNION {[F -> AttrValues] : F \in {{}, {"movement_acceleration"}, {"acceleration"},
                                      {"movement_acceleration", "power_strength"}}}
    \cup {[f \in {"movement_acceleration"} |-> 101], [f \in {"acceleration"} |-> 101]}

\* rows of a table of SpecProfile
MaxProfileRows == 2

InitProfile == fs \in ProfileFiles(MaxProfileRows) /\ Booting

NextProfile ==
    \/ LoadModels
    \/ \E json \in ProfileBodies : PredictCluster(json)
    \/ \E q \in Queries : GetPlayerProfile(q)
    \/ SendResponse

SpecProfile == InitProfile /\ [][NextProfile]_vars

-----------------------------------------------------------------------------
(* train_model.py: one run of main, for a trainer built with n_clusters.   *)
(* main itself passes 6.  The fitted objects are kept by what the code     *)
(* decides about them, not by coordinates: a scaler by the matrices it was *)
(* fitted on, a centroid by the rows it is the centre of.                  *)

\* rows of a training dataset
MaxTrainRows == 7
\* the largest n_clusters a trainer is built with
MaxClusters == 7

\* Training datasets: short_name and some attribute columns, the rows
\* alternating between two records.
TrainValue(r) == IF r % 2 = 1 THEN 70 ELSE 0
TrainName(r) == <<"p", Str(r)>>
TrainColumnSets == {{}, {"movement_acceleration"}, {"power_strength"},
                    {"movement_acceleration", "power_strength"}}

TrainTables(maxrows) ==
    {[attrcols |-> C, namecols |-> {"short_name"},
      rows |-> [r \in 1..n |-> [attrs |-> [c \in C |-> TrainValue(r)],
                                names |-> [c \in {"short_name"} |-> TrainName(r)]]]] :
        C \in TrainColumnSets, n \in 0..maxrows}

\* PlayerStyleTrainer(data_path='FC26.csv', n_clusters=n_clusters)
NewTrainer(n_clusters) ==
    [pc |-> "start", n_clusters |-> n_clusters, df |-> None, cluster |-> None,
     scaler_fits |-> <<>>, scaler |-> None, X_scaled |-> None, kmeans |-> None, feature_columns |-> <<>>, stats |-> None,
     visualization |-> "none", log |-> <<>>]

\* The exists check of main and load_data
LoadData ==
    /\ trainer.pc = "start"
    /\ trainer' = IF IsNone(fs.csv)
                  THEN [trainer EXCEPT !.pc = "returned"]
                  ELSE [trainer EXCEPT !.pc = "loaded", !.df = fs.csv]
    /\ UNCHANGED <<df, reduced, fs, scaler, kmeans, cluster_labels, player_data, phase,
                   resp, served, explorer>>

\* Column d of a feature matrix
ColumnOf(X, d) == [r \in 1..Len(X) |-> X[r][d]]

\* NaN among the statistics of a scaler: the fraction 0 / 0
NaNStat == [num |-> 0, den |-> 0]

\* NaN among standardized values: 0 / sqrt(0)
NaNScaled == [num |-> 0, den_sq |-> 0]

\* A scale that keeps a zero standard deviation as it is, which the
\* handling of a constant column has to tell from the scaler's.
ScaleKeepingZeros(var) == var

\* The scale StandardScaler takes from a variance, squared: the variance
\* itself, and 1 where the variance is zero.
HandleZerosInScale(var) ==
    IF var.den # 0 /\ var.num = 0 THEN [num |-> 1, den |-> 1] ELSE var

\* StandardScaler().fit(X) on a matrix with rows.  NaN is left out, column
\* by column: with n the numbers of a column, mean_ = sum / n and var_ =
\* (n * sum of squares - sum^2) / n^2 as exact fractions [num, den], and
\* scale_ holds the square of the scale.  A column without a number gets
\* NaN for all three.  n_samples_seen_ counts the numbers of each column,
\* and is one integer when all columns have the same count.
StandardScalerFit(X) ==
    LET Kept(d) == SelectSeq(ColumnOf(X, d), IsNum)
        Seen(d) == Len(Kept(d))
        Total(d) == SumSeq(Kept(d))
        Squares(d) == SumSeq([i \in 1..Seen(d) |-> Kept(d)[i] * Kept(d)[i]])
        Var(d) == IF Seen(d) = 0 THEN NaNStat
                  ELSE [num |-> Seen(d) * Squares(d) - Total(d) * Total(d),
                        den |-> Seen(d) * Seen(d)]
    IN  [n_samples_seen_ |->
             IF \A d \in 1..Len(Dimensions) : Seen(d) = Seen(1)
             THEN Seen(1)
             ELSE [d \in 1..Len(Dimensions) |-> Seen(d)],
         mean_ |-> [d \in 1..Len(Dimensions) |->
                       IF Seen(d) = 0 THEN NaNStat
                       ELSE [num |-> Total(d), den |-> Seen(d)]],
         var_ |-> [d \in 1..Len(Dimensions) |-> Var(d)],
         scale_ |-> [d \in 1..Len(Dimensions) |-> HandleZerosInScale(Var(d))]]

\* scaler.transform(X) with that scaler: (x - mean_) / scale, kept as
\* [num, den_sq] for num / sqrt(den_sq), both times the mean's
\* denominator: num = den * x - sum, den_sq = den^2 * scale^2, where the
\* denominator of scale^2 is den^2 or 1 and divides den^2.  A zero
\* scale would make it 0 / 0, which is NaN.
StandardScalerTransform(sc, X) ==
    [r \in 1..Len(X) |->
        [d \in 1..Len(Dimensions) |->
            LET mean == sc.mean_[d]
                scale == sc.scale_[d]
            IN  IF X[r][d] = NaN \/ mean = NaNStat THEN NaNScaled
                ELSE [num |-> mean.den * X[r][d] - mean.num,
                      den_sq |-> ((mean.den * mean.den) \div scale.den) * scale.num]]]

\* kmeans.labels_ after fit: each row's cluster index.  Which row goes
\* where is left open, but rows with the same features share a cluster.
KMeansLabels(features, n_clusters) ==
    LET points == {features[r] : r \in 1..Len(features)}
    IN  {[r \in 1..Len(features) |-> g[features[r]]] : g \in [points -> 0..(n_clusters - 1)]}

\* self.CLUSTER_LABELS.get(cluster_id, f"Cluster {cluster_id}")
LabelOrDefault(cluster_id) ==
    IF cluster_id \in DOMAIN CLUSTER_LABELS
    THEN CLUSTER_LABELS[cluster_id]
    ELSE "Cluster " \o Str(cluster_id)

\* Series.head(5) of a sequence
Head5(q) == SubSeq(q, 1, Min(5, Len(q)))

\* Statistics whose mask takes every row of this cluster or a later one,
\* which the counting of each row once has to tell from
\* _calculate_cluster_stats.
CalculateClusterStatsOverlapping(t, labels, features, n_clusters) ==
    [cluster_id \in 0..(n_clusters - 1) |->
        LET InCluster(r) == labels[r] >= cluster_id
            members == SelectSeq([r \in 1..NRows(t) |-> r], InCluster)
        IN  [count |-> Len(members),
             avg_overall |-> None,
             style_profile |->
                 [d \in 1..Len(Dimensions) |->
                     SkipNaMeanFixed([j \in 1..Len(members) |-> features[members[j]][d]])],
             label |-> LabelOrDefault(cluster_id),
             sample_players |->
                 IF "short_name" \in t.namecols
                 THEN Head5([j \in 1..Len(members) |-> t.rows[members[j]].names["short_name"]])
                 ELSE IF "name" \in t.namecols
                 THEN Head5([j \in 1..Len(members) |-> t.rows[members[j]].names["name"]])
                 ELSE <<>>]]

\* _calculate_cluster_stats(df, features), df holding the cluster column
CalculateClusterStats(t, labels, features, n_clusters) ==
    [cluster_id \in 0..(n_clusters - 1) |->
        LET InCluster(r) == labels[r] = cluster_id
            members == SelectSeq([r \in 1..NRows(t) |-> r], InCluster)
        IN  [count |-> Len(members),
             avg_overall |-> None,
             style_profile |->
                 [d \in 1..Len(Dimensions) |->
                     SkipNaMeanFixed([j \in 1..Len(members) |-> features[members[j]][d]])],
             label |-> LabelOrDefault(cluster_id),
             sample_players |->
                 IF "short_name" \in t.namecols
                 THEN Head5([j \in 1..Len(members) |-> t.rows[members[j]].names["short_name"]])
                 ELSE IF "name" \in t.namecols
                 THEN Head5([j \in 1..Len(members) |-> t.rows[members[j]].names["name"]])
                 ELSE <<>>]]

\* trainer.train(df).  scaler.fit_transform raises on a frame without
\* rows; kmeans.fit raises on NaN and on fewer rows than clusters.  An
\* exception leaves main with a traceback.
Train ==
    /\ trainer.pc = "loaded"
    /\ \E features \in {engineer_features(Get1(trainer.df))} :
       \E fitted \in {IF Len(features) = 0 THEN None ELSE Some(StandardScalerFit(features))} :
       \E X_scaled \in {IF Len(features) = 0 THEN None
                        ELSE Some(StandardScalerTransform(Get1(fitted), features))} :
           LET t == Get1(trainer.df)
               reduced_ == [trainer EXCEPT !.feature_columns = feature_columns(t),
                                           !.log = <<"engineer_features">>]
               scaled == [reduced_ EXCEPT !.scaler_fits = <<features>>,
                                          !.scaler = fitted,
                                          !.X_scaled = X_scaled,
                                          !.log = @ \o <<"scaler.fit_transform">>]
           IN  IF Len(features) = 0
               THEN trainer' = [reduced_ EXCEPT !.pc = "crashed"]
               ELSE IF (\E r \in 1..Len(features), d \in 1..Len(Dimensions) :
                            Get1(X_scaled)[r][d] = NaNScaled)
                       \/ Len(features) < trainer.n_clusters
               THEN trainer' = [scaled EXCEPT !.pc = "crashed"]
               ELSE \E labels \in KMeansLabels(features, trainer.n_clusters) :
                        trainer' =
                            [scaled EXCEPT
                                !.pc = "trained",
                                !.kmeans = Some([n_clusters |-> trainer.n_clusters,
                                                 labels_ |-> labels,
                                                 cluster_centers_ |->
                                                     [k \in 1..trainer.n_clusters |->
                                                         {r \in 1..Len(features) :
                                                              labels[r] = k - 1}]]),
                                !.cluster = Some(labels),
                                !.stats = Some(CalculateClusterStats(t, labels, features,
                                                                     trainer.n_clusters)),
                                !.log = @ \o <<"kmeans.fit", "_calculate_cluster_stats">>]
    /\ UNCHANGED <<df, reduced, fs, scaler, kmeans, cluster_labels, player_data, phase,
                   resp, served, explorer>>

\* trainer.save_artifacts(): scaler.pkl, kmeans.pkl, cluster_labels.json,
\* feature_info.json
SaveArtifacts ==
    /\ trainer.pc = "trained"
    /\ fs' = [fs EXCEPT
                 !.scaler = Some([fits |-> trainer.scaler_fits]),
                 !.kmeans = trainer.kmeans,
                 !.labels = Some(LabelFile(Cardinality(DOMAIN CLUSTER_LABELS))),
                 !.feature_info = Some([feature_columns |-> trainer.feature_columns,
                                        style_dimensions |-> STYLE_DIMENSIONS])]
    /\ trainer' = [trainer EXCEPT !.pc = "saved", !.log = @ \o <<"save_artifacts">>]
    /\ UNCHANGED <<df, reduced, scaler, kmeans, cluster_labels, player_data, phase,
                   resp, served, explorer>>

\* A visualization step that fits the scaler again instead of only
\* transforming with it, which the order of the pipeline has to tell from
\* visualize_clusters.
VisualizeClustersRefitting ==
    /\ trainer.pc = "saved"
    /\ trainer' = [trainer EXCEPT
                      !.pc = "done",
                      !.visualization = "saved",
                      !.scaler_fits = @ \o <<engineer_features(Get1(trainer.df))>>,
                      !.log = @ \o <<"engineer_features", "scaler.fit_transform">>]
    /\ UNCHANGED <<df, reduced, fs, scaler, kmeans, cluster_labels, player_data, phase,
                   resp, served, explorer>>

\* The end of main: engineer_features once more, then visualize_clusters,
\* which transforms with the fitted scaler and swallows what goes wrong: a
\* missing matplotlib, or PCA(n_components=2) on a single row.
VisualizeClusters ==
    /\ trainer.pc = "saved"
    /\ \E outcome \in IF NRows(Get1(trainer.df)) < 2
                      THEN {"skipped", "failed"} ELSE {"skipped", "saved"} :
           trainer' = [trainer EXCEPT
                          !.pc = "done",
                          !.feature_columns = feature_columns(Get1(trainer.df)),
                          !.visualization = outcome,
                          !.log = @ \o <<"engineer_features">>
                                    \o (IF outcome = "skipped" THEN <<>>
                                        ELSE <<"scaler.transform">>)]
    /\ UNCHANGED <<df, reduced, fs, scaler, kmeans, cluster_labels, player_data, phase,
                   resp, served, explorer>>

InitTrain ==
    /\ fs \in {NoFiles} \cup {[NoFiles EXCEPT !.csv = Some(t)] : t \in TrainTables(MaxTrainRows)}
    /\ trainer \in {NewTrainer(k) : k \in 1..MaxClusters}
    /\ df = NoTable
    /\ reduced = NoCalls
    /\ scaler = None
    /\ kmeans = None
    /\ cluster_labels = None
    /\ player_data = None
    /\ phase = "startup"
    /\ resp = NoResponse
    /\ served = None
    /\ explorer = NoExplorer

NextTrain ==
    \/ LoadData
    \/ Train
    \/ SaveArtifacts
    \/ VisualizeClusters

SpecTrain == InitTrain /\ [][NextTrain]_vars

-----------------------------------------------------------------------------
(* Claims about training, under SpecTrain *)

Saved == trainer.pc \in {"saved", "done"}

\* C11: for every n_clusters the trainer is built with, after train and
\* save_artifacts the saved cluster model has n_clusters centroids and the
\* saved label map has n_clusters entries, keyed 0 .. n_clusters - 1.
C11_CentroidsAndLabelsCountK ==
    Saved =>
        /\ Len(Get1(fs.kmeans).cluster_centers_) = trainer.n_clusters
        /\ DOMAIN Get1(fs.labels) = {Str(i) : i \in 0..(trainer.n_clusters - 1)}

\* C12: looking up the label of a cluster index outside the label map's
\* range [0, K) fails on every path from an index to a style name; no
\* substitute label is made up.  Training's statistics are such a path: a
\* label they hold is the label map's own entry for that index.
C12_NoMadeUpLabel ==
    ~IsNone(trainer.stats) =>
        \A cluster_id \in DOMAIN Get1(trainer.stats) :
            /\ cluster_id \in DOMAIN CLUSTER_LABELS
            /\ Get1(trainer.stats)[cluster_id].label = CLUSTER_LABELS[cluster_id]

\* The steps of a complete run that draws the visualization
PipelineOrder ==
    <<"engineer_features", "scaler.fit_transform", "kmeans.fit", "_calculate_cluster_stats",
      "save_artifacts", "engineer_features", "scaler.transform">>

IsPrefix(p, q) == Len(p) <= Len(q) /\ SubSeq(q, 1, Len(p)) = p

ArtifactsWritten ==
    \E f \in {"scaler", "kmeans", "labels", "feature_info"} : ~IsNone(fs[f])

\* C18: in every run of main the steps come in the order reduce, scaler
\* fit, cluster fit, per-cluster statistics, persistence; the scaler is
\* fitted once, over all rows of the dataset, and not again by the
\* visualization; artifacts are written only after both fits.
C18_PipelineOrder ==
    /\ IsPrefix(trainer.log, PipelineOrder)
    /\ Len(trainer.scaler_fits) <= 1
    /\ trainer.scaler_fits # <<>> =>
           Len(trainer.scaler_fits[1]) = NRows(Get1(trainer.df))
    /\ ArtifactsWritten =>
           /\ IsPrefix(SubSeq(PipelineOrder, 1, 5), trainer.log)
           /\ Len(trainer.scaler_fits) = 1
           /\ ~IsNone(trainer.kmeans)

\* A complete run over seven rows and six clusters, visualization drawn.
C18_Witness ==
    /\ trainer.pc = "done"
    /\ trainer.n_clusters = 6
    /\ NRows(Get1(trainer.df)) = 7
    /\ trainer.log = PipelineOrder
    /\ Len(trainer.scaler_fits) = 1
    /\ ArtifactsWritten

-----------------------------------------------------------------------------
(* Claims about the reducers, under SpecReduce *)

SingleCalled == ~IsNone(reduced.single)
BatchCalled == ~IsNone(reduced.batch)
SingleRow == Get1(reduced.single).row
SingleRet == Get1(reduced.single).ret

\* C1: for every table and every row r of it, the batch reducer's row r
\* equals the single-record reducer applied to row r as a mapping,
\* component for component.
C1_BatchEqualsSingle ==
    (SingleCalled /\ BatchCalled) => Get1(reduced.batch)[SingleRow] = SingleRet

\* The values of the candidates of attrs that the record holds, in list order.
PresentValues(attributes, attrs) ==
    LET Present(a) == a \in DOMAIN attributes
        present == SelectSeq(attrs, Present)
    IN  [j \in 1..Len(present) |-> attributes[present[j]]]

\* C2: in single-record reduction, a dimension with at least one candidate
\* present in the record is the arithmetic mean of the present candidates
\* only; an absent candidate contributes nothing.
C2_SingleMeansPresentOnly ==
    SingleCalled =>
        \A d \in 1..Len(Dimensions) :
            LET present == PresentValues(RowToDict(df, SingleRow), style_dims_single[d])
            IN  present # <<>> => SingleRet[d] = NpMean(present)

\* The prefixed name of a candidate: the second half of each batch list
\* repeats the first half without the prefix.
PrefixedName(col) ==
    IF \E d \in 1..Len(style_dims_batch) : \E j \in 1..Len(style_dims_batch[d]) :
           style_dims_batch[d][j] = col /\ j > Len(style_dims_batch[d]) \div 2
    THEN LET d == CHOOSE d \in 1..Len(style_dims_batch) :
                      \E j \in 1..Len(style_dims_batch[d]) : style_dims_batch[d][j] = col
             j == CHOOSE j \in 1..Len(style_dims_batch[d]) : style_dims_batch[d][j] = col
         IN  style_dims_batch[d][j - Len(style_dims_batch[d]) \div 2]
    ELSE col

\* A table none of whose columns is the prefixed twin of another.
OneNamePerAttribute(t) ==
    \A a, b \in t.attrcols : a # b => PrefixedName(a) # PrefixedName(b)

\* The same table with every attribute column under its prefixed name.
WithPrefixedNames(t) ==
    LET Old(p) == CHOOSE a \in t.attrcols : PrefixedName(a) = p
        cols == {PrefixedName(a) : a \in t.attrcols}
    IN  [attrcols |-> cols,
         namecols |-> t.namecols,
         rows |-> [r \in 1..NRows(t) |->
                      [attrs |-> [p \in cols |-> t.rows[r].attrs[Old(p)]],
                       names |-> t.rows[r].names]]]

\* C3: a record supplying attributes under the unprefixed names reduces to
\* the same values as the record supplying them under the prefixed names, in
\* single-record mode and in batch mode.
C3_EitherNamingSameValue ==
    OneNamePerAttribute(df) =>
        /\ SingleCalled =>
              SingleRet = create_style_dimensions(RowToDict(WithPrefixedNames(df), SingleRow))
        /\ BatchCalled =>
              Get1(reduced.batch) = create_style_dimensions_batch(WithPrefixedNames(df))

EngineeredCalled == ~IsNone(reduced.engineered)

\* C19: a record with none of a dimension's candidate attributes reduces,
\* in single-record mode, to exactly 50.0 for that dimension, without an
\* error; the record holding only skill_dribbling 90, skill_ball_control 85,
\* movement_agility 80 and movement_balance 75 reduces to dribbling 82.5 and
\* 50.0 for the five other dimensions.
C19_NoCandidateGivesFifty ==
    SingleCalled =>
        /\ \A d \in 1..Len(Dimensions) :
               PresentValues(RowToDict(df, SingleRow), style_dims_single[d]) = <<>>
                   => SingleRet[d] = 50 * Unit
        /\ df = DribblingTable =>
               SingleRet = <<50 * Unit, 165 * (Unit \div 2), 50 * Unit, 50 * Unit,
                             50 * Unit, 50 * Unit>>

\* The dribbling record, reduced
C19_Witness ==
    /\ SingleCalled
    /\ df = DribblingTable
    /\ SingleRet[2] = 165 * (Unit \div 2)
    /\ SingleRet[1] = 50 * Unit

\* What batch reduction is to give row r for a dimension with the
\* candidate list attrs: 50.0 without columns, the row's mean over the
\* columns there are (rows with an empty cell aside).
BatchCellAsSpecified(t, attrs, r, cell) ==
    LET InTable(col) == col \in t.attrcols
        available_attrs == SelectSeq(attrs, InTable)
        values == [j \in 1..Len(available_attrs) |-> t.rows[r].attrs[available_attrs[j]]]
    IN  IF available_attrs = <<>> THEN cell = 50 * Unit
        ELSE HasNaN(values) \/ cell = NpMean(values)

\* C20: in batch reduction a dimension without candidate columns in the
\* table is 50.0 in every row and a dimension with some is the row-wise
\* mean over them, in create_style_dimensions_batch and in training's
\* engineer_features, whichever dimension has no columns, pace included.
C20_BatchDefaultAndMean ==
    /\ BatchCalled =>
           /\ Len(Get1(reduced.batch)) = NRows(df)
           /\ \A r \in 1..NRows(df) : \A d \in 1..Len(Dimensions) :
                  BatchCellAsSpecified(df, style_dims_batch[d], r, Get1(reduced.batch)[r][d])
    /\ EngineeredCalled =>
           /\ Len(Get1(reduced.engineered)) = NRows(df)
           /\ \A r \in 1..NRows(df) : \A d \in 1..Len(Dimensions) :
                  BatchCellAsSpecified(df, STYLE_DIMENSIONS[d], r,
                                       Get1(reduced.engineered)[r][d])

-----------------------------------------------------------------------------
(* Claims about the serving layer *)

Answered(op) == resp.op = op /\ resp.status = 200
AnsweredByName == Answered("similar_players") \/ Answered("player")

\* The style vector the handler computed for the row it selected
ServedFeatures ==
    IF resp.op = "similar_players" THEN resp.locals.player_features ELSE resp.locals.features

\* C4: for every player row, the style vector serving computes for the row
\* (as the query of /similar_players and for /player/{name}) equals the one
\* training's engineer_features computes for that row of the same dataset.
C4_ServingVectorEqualsTraining ==
    AnsweredByName =>
        LET trained == engineer_features(Get1(player_data))
            r == resp.locals.player_row
        IN  r \in DOMAIN trained /\ trained[r] = ServedFeatures

\* No two rows are at the same distance from the query, so the order the
\* sort leaves ties in plays no part in the answer.
DistinctDistances ==
    \A i, j \in DOMAIN resp.locals.distances :
        i # j => resp.locals.distances[i] # resp.locals.distances[j]

\* C5: the list /similar_players returns never contains the row selected as
\* the query (stated here for the searches without ties in distance).
C5_QueryRowNotReturned ==
    (Answered("similar_players") /\ DistinctDistances) =>
        \A i \in DOMAIN resp.locals.similar_indices :
            resp.locals.similar_indices[i] # resp.locals.player_row

\* C6: a successful /similar_players over N candidates returns exactly
\* min(top_n, N - 1) names.
C6_LengthIsMinTopNCandidatesLessOne ==
    Answered("similar_players") =>
        Len(resp.body.similar_players) = Min(resp.req.top_n, NRows(Get1(player_data)) - 1)

\* top_n is clamped (three candidates, three asked for, two returned), and
\* on another table is the shorter side.
C6_Witness ==
    /\ Answered("similar_players")
    /\ NRows(Get1(player_data)) = 3
    /\ resp.req.top_n = 3
    /\ Len(resp.body.similar_players) = 2

\* x is a distance strictly smaller than the distance y
StrictlyNearer(x, y) == x # NaN /\ y # NaN /\ x < y

\* C7: the returned list is in non-decreasing distance to the query in
\* standardized space; apart from one dropped entry no candidate left out is
\* strictly nearer than a returned one; and in the three-player scenario,
\* asking for the two players nearest to A returns B then C.
C7_SortedByDistance ==
    Answered("similar_players") =>
        LET idx == resp.locals.similar_indices
            dist == resp.locals.distances
            returned == {idx[i] : i \in DOMAIN idx}
            left_out == (DOMAIN dist) \ returned
        IN  /\ \A i, j \in DOMAIN idx :
                   i < j => idx[i] # idx[j] /\ ~StrictlyNearer(dist[idx[j]], dist[idx[i]])
            /\ \E dropped \in left_out :
                   \A y \in left_out \ {dropped} : \A z \in returned :
                       ~StrictlyNearer(dist[y], dist[z])
            /\ (Get1(player_data) = ScenarioTable
                   /\ resp.req = [player_name |-> <<"a">>, top_n |-> 2])
                  => resp.body.similar_players = << <<"b">>, <<"a", "b">> >>

\* The scenario itself: A asked for with top_n = 2, B and C at the
\* distances 1 and 5 (squared, in fixed point).
C7_Witness ==
    /\ Answered("similar_players")
    /\ Get1(player_data) = ScenarioTable
    /\ resp.req = [player_name |-> <<"a">>, top_n |-> 2]
    /\ resp.locals.distances = <<0, One * One, 25 * One * One>>
    /\ resp.body.similar_players = << <<"b">>, <<"a", "b">> >>

\* text contains pat as a case-insensitive substring, every character of
\* pat standing for itself
SubstringAt(pat, text, k) ==
    \A i \in 1..Len(pat) : Lower(pat[i]) = Lower(text[k + i - 1])
ContainsSubstring(pat, text) ==
    \E k \in 1..(Len(text) - Len(pat) + 1) : SubstringAt(pat, text, k)

\* The name columns the table has, in the order the handlers try them
PresentNameColumns(t) == SelectSeq(name_columns, LAMBDA c : c \in t.namecols)
ColumnHasSubstring(t, c, pat) ==
    \E r \in 1..NRows(t) : ContainsSubstring(pat, t.rows[r].names[c])
MatchingColumns(t, pat) ==
    SelectSeq(PresentNameColumns(t), LAMBDA c : ColumnHasSubstring(t, c, pat))

AskedByName == resp.op \in {"similar_players", "player"}
AskedName == resp.req.player_name

\* C8: a lookup by name tries short_name, name, long_name, player_name in
\* that order and uses the first column that is present and has a row
\* containing the query as a case-insensitive substring; a match found only
\* in a later column is still found.
C8_FirstMatchingNameColumnWins ==
    (AskedByName /\ resp.status # 422) =>
        LET matching == MatchingColumns(Get1(player_data), AskedName)
        IN  /\ matching # <<>> => resp.status = 200
            /\ resp.status = 200 =>
                   matching # <<>> /\ resp.locals.name_col_used = matching[1]

\* C9: a lookup by name that no row of any present name column matches (no
\* name column at all included) is answered 404 and leaves the loaded
\* artifacts as they were.
C9_NoMatchIsNotFound ==
    (AskedByName /\ resp.status # 422
        /\ MatchingColumns(Get1(player_data), AskedName) = <<>>) =>
        /\ resp.status = 404
        /\ scaler = fs.scaler /\ kmeans = fs.kmeans
        /\ cluster_labels = fs.labels /\ player_data = fs.csv

\* The four artifact files are there and the label map does not have one
\* entry per centroid
LabelCountMismatch ==
    /\ \A f \in {"scaler", "kmeans", "labels", "csv"} : ~IsNone(fs[f])
    /\ Cardinality(DOMAIN Get1(fs.labels)) # Len(Get1(fs.kmeans).cluster_centers_)

\* C10: a label map whose size differs from the number of centroids is
\* detected at load: startup fails, and nothing is served with that
\* artifact set.
C10_LabelCountCheckedAtLoad ==
    LabelCountMismatch => phase # "serving" /\ resp.op = "none"

-----------------------------------------------------------------------------
(* Claims about the label map and startup, under Spec *)

\* cluster_labels.json as training writes it
TrainedLabelFile == LabelFile(Cardinality(DOMAIN CLUSTER_LABELS))

LabelServed == Answered("cluster") \/ Answered("player")

\* C13: with the label map training wrote, the style serving gives for
\* cluster i, i in 0..5, is the non-empty name CLUSTER_LABELS[i], in the
\* loaded map and in every response that names a cluster, now and before.
C13_LabelRoundTrip ==
    (phase = "serving" /\ fs.labels = Some(TrainedLabelFile)) =>
        /\ \A i \in 0..5 :
               /\ Get1(cluster_labels)[Str(i)] = CLUSTER_LABELS[i]
               /\ CLUSTER_LABELS[i] # ""
        /\ LabelServed =>
               /\ resp.body.cluster_id \in 0..5
               /\ resp.body.style = CLUSTER_LABELS[resp.body.cluster_id]
        /\ (~IsNone(served) /\ Get1(served).status = 200) =>
               Get1(served).body.style = CLUSTER_LABELS[Get1(served).body.cluster_id]

\* A prediction into the last cluster, named from the trained map, after
\* an earlier prediction was answered.
C13_Witness ==
    /\ Answered("cluster")
    /\ fs.labels = Some(TrainedLabelFile)
    /\ resp.body.cluster_id = 5
    /\ resp.body.style = "Box-to-Box Midfielder"
    /\ ~IsNone(served) /\ Get1(served).status = 200

AllLoaded ==
    ~IsNone(scaler) /\ ~IsNone(kmeans) /\ ~IsNone(cluster_labels) /\ ~IsNone(player_data)
SomeFileMissing == \E f \in {"scaler", "kmeans", "labels", "csv"} : IsNone(fs[f])

\* C14: if the scaler, the cluster model, the label map or the candidate
\* table is missing at startup, load_models raises and startup is aborted;
\* no /cluster, /similar_players or /player request is served while one of
\* them is not loaded.
C14_MissingArtifactAbortsStartup ==
    /\ (SomeFileMissing /\ phase # "startup") => (phase = "aborted" /\ resp = NoResponse)
    /\ phase = "serving" => AllLoaded
    /\ resp.op \in {"cluster", "similar_players", "player"} => AllLoaded

\* Startup aborted at the second load: the scaler is in, the model is not.
C14_Witness ==
    /\ phase = "aborted"
    /\ ~IsNone(scaler)
    /\ IsNone(fs.kmeans) /\ IsNone(kmeans)
    /\ resp = NoResponse

\* A handler ran and answered, or failed with one of the HTTP errors
Handled == resp.op \in {"health", "clusters", "cluster", "similar_players", "player"}

\* C15: once startup is over, no step of a request handler, successful or
\* failed, changes the loaded scaler, cluster model, label map or candidate
\* table.
C15_HandlersLeaveArtifactsAlone ==
    [][phase = "serving" =>
          /\ scaler' = scaler
          /\ kmeans' = kmeans
          /\ cluster_labels' = cluster_labels
          /\ player_data' = player_data]_vars

\* A failed handler and the artifacts as they were loaded
C15_Witness ==
    /\ Handled
    /\ resp.status = 500
    /\ scaler = fs.scaler /\ kmeans = fs.kmeans
    /\ cluster_labels = fs.labels /\ player_data = fs.csv

\* C16: however the requests interleave, a response depends on its own
\* input and the artifacts loaded at startup only: a /cluster request with
\* the attribute record of an earlier one gets the earlier answer, same
\* cluster index and same style, whatever ran in between.
C16_SameRecordSameCluster ==
    (resp.op = "cluster" /\ ~IsNone(served) /\ Get1(served).req = resp.req) =>
        /\ resp.status = Get1(served).status
        /\ resp.status = 200 =>
               /\ resp.body.cluster_id = Get1(served).body.cluster_id
               /\ resp.body.style = Get1(served).body.style

\* The same record predicted a second time, after an earlier answer
C16_Witness ==
    /\ Answered("cluster")
    /\ ~IsNone(served)
    /\ Get1(served).req = resp.req
    /\ resp.req = [movement_acceleration |-> 100]
    /\ resp.body = Get1(served).body

\* The candidate attributes the single-record reducer reads
ReducerReads(t) == t.attrcols \cap PlayerAttributesFields

\* C17: values outside [0, 100] are rejected on every path into the
\* reducer: a lookup by name is not answered from a candidate-table row
\* that holds such a value.
C17_OutOfRangeRejectedFromTable ==
    AnsweredByName =>
        \A c \in ReducerReads(Get1(player_data)) :
            LET v == RowToDict(Get1(player_data), resp.locals.player_row)[c]
            IN  v = NaN \/ (v >= 0 /\ v <= 100)

-----------------------------------------------------------------------------
(* Claims about standardization and errors in the handlers *)

\* z is x standardized with the scaler state sc: z * scale_ = x - mean_ in
\* every dimension, an empty value staying empty.
Standardized(sc, x, z) ==
    /\ Len(z) = Len(x)
    /\ \A d \in 1..Len(x) :
           IF x[d] = NaN THEN z[d] = NaN
           ELSE z[d] # NaN /\ z[d] * sc.scale_[d] = (x[d] - sc.mean_[d]) * ScaleDen

\* C21: in every /similar_players request the query vector and every
\* candidate vector are standardized with the one scaler loaded at
\* startup, the distances are taken between these standardized vectors,
\* and /cluster and /player/{name} standardize with the same scaler.
C21_OneScalerForAll ==
    /\ phase = "serving" => scaler = fs.scaler
    /\ Answered("similar_players") =>
           LET sc == Get1(fs.scaler)
               all_features == create_style_dimensions_batch(Get1(player_data))
           IN  /\ Standardized(sc, resp.locals.player_features, resp.locals.player_scaled)
               /\ Len(resp.locals.all_scaled) = Len(all_features)
               /\ \A r \in 1..Len(all_features) :
                      /\ Standardized(sc, all_features[r], resp.locals.all_scaled[r])
                      /\ resp.locals.distances[r] =
                             NormSq(resp.locals.all_scaled[r], resp.locals.player_scaled)
    /\ (Answered("cluster") \/ Answered("player")) =>
           Standardized(Get1(fs.scaler), resp.locals.features, resp.locals.features_scaled)

\* The scenario table searched from A: B and C at their standardized
\* distances from a query the loaded scaler does not map to the origin.
C21_Witness ==
    /\ Answered("similar_players")
    /\ resp.req.player_name = <<"a">>
    /\ Len(resp.locals.distances) = 3
    /\ resp.locals.distances[1] = 0
    /\ resp.locals.distances[2] # 0
    /\ resp.locals.player_scaled # <<0, 0, 0, 0, 0, 0>>

\* The order the components are to come in.
ComponentOrder == <<"pace", "dribbling", "creativity", "finishing", "defense", "physicality">>

\* The dimension an attribute column of the bounded tables belongs to.
DimensionOfAttribute(a) ==
    IF a \in {"movement_acceleration", "movement_sprint_speed", "acceleration"} THEN "pace"
    ELSE IF a \in {"skill_dribbling", "skill_ball_control", "movement_agility",
                   "movement_balance"} THEN "dribbling"
    ELSE "physicality"

\* The attribute names create_style_dimensions recognizes among them.
PrefixedAttributes ==
    {"movement_acceleration", "movement_sprint_speed", "power_strength",
     "skill_dribbling", "skill_ball_control", "movement_agility", "movement_balance"}

\* v has six components and its p-th one is the p-th dimension's: it
\* leaves the default only when the record holds a recognized attribute of
\* that dimension, and lies below the default when all of them are 0.
ComponentsInOrder(v, attrs, recognized) ==
    /\ Len(v) = Len(ComponentOrder)
    /\ Len(v) = 6
    /\ \A p \in 1..Len(v) :
           LET mine == {a \in (DOMAIN attrs) \cap recognized :
                           DimensionOfAttribute(a) = ComponentOrder[p]}
           IN  /\ v[p] # 50 * Unit => mine # {}
               /\ (mine # {} /\ \A a \in mine : attrs[a] = 0) => v[p] < 50 * Unit

\* C22: the single-record reducer returns exactly six components in the
\* order pace, dribbling, creativity, finishing, defense, physicality, and
\* the batch reducer an N x 6 matrix whose columns are in that order.
C22_SixComponentsInOrder ==
    /\ SingleCalled =>
           ComponentsInOrder(SingleRet, RowToDict(df, SingleRow), PrefixedAttributes)
    /\ BatchCalled =>
           /\ Len(Get1(reduced.batch)) = NRows(df)
           /\ \A r \in 1..NRows(df) :
                  ComponentsInOrder(Get1(reduced.batch)[r], RowToDict(df, r),
                                    PrefixedAttributes \cup {"acceleration"})

\* Both reducers called on the record that holds the dribbling attributes
\* 90, 85, 80, 75: 82.5 comes second in both.
C22_Witness ==
    /\ SingleCalled
    /\ BatchCalled
    /\ df = DribblingTable
    /\ SingleRet = <<50 * Unit, 165 * (Unit \div 2), 50 * Unit, 50 * Unit, 50 * Unit, 50 * Unit>>
    /\ Get1(reduced.batch) = <<SingleRet>>

HandlerOps == {"cluster", "similar_players", "player"}

\* A request of one of the three handlers was answered with a 500 earlier.
FailedEarlier ==
    /\ ~IsNone(served)
    /\ Get1(served).op \in HandlerOps
    /\ Get1(served).status = 500

\* The response in flight got past validation and into its handler.
InHandler == resp.op \in HandlerOps /\ resp.status # 422

\* What goes wrong inside the handler of the response in flight: the
\* pattern does not compile, the prediction raises, or the label is missing.
HandlerFails ==
    IF resp.op = "cluster"
    THEN PredictionFails(Transform(Get1(scaler),
                                   create_style_dimensions(AttributesDict(resp.req))))
    ELSE LET t == Get1(player_data)
             found == LookupPlayer(t, resp.req.player_name)
         IN  \/ found.outcome = "error"
             \/ /\ resp.op = "player"
                /\ found.outcome = "found"
                /\ PredictionFails(Transform(Get1(scaler),
                                             create_style_dimensions(RowToDict(t, found.row))))

HandlerFindsNobody ==
    /\ resp.op \in {"similar_players", "player"}
    /\ LookupPlayer(Get1(player_data), resp.req.player_name).outcome = "not_found"

\* C23: a failure inside the /cluster, /similar_players or /player handler
\* is answered with a 500 for that request; a player that is not found
\* keeps its 404; and after a 500 the server goes on serving with its
\* artifacts loaded, every later request getting the status of its own.
C23_FailureIsOneRequests500 ==
    /\ InHandler =>
           /\ resp.status \in {200, 404, 500}
           /\ HandlerFails <=> resp.status = 500
           /\ HandlerFindsNobody <=> resp.status = 404
    /\ FailedEarlier =>
           /\ phase = "serving"
           /\ AllLoaded
           /\ scaler = fs.scaler
           /\ kmeans = fs.kmeans
           /\ player_data = fs.csv

\* A /player request whose pattern did not compile got a 500, and a later
\* /player request is answered with a profile.
C23_Witness ==
    /\ FailedEarlier
    /\ Get1(served).op = "player"
    /\ resp.op = "player"
    /\ resp.status = 200
    /\ resp.req # Get1(served).req

-----------------------------------------------------------------------------
(* Claims about the fitted scaler and the statistics of training *)

\* The scaler was fitted in this run of training.
ScalerFitted == ~IsNone(trainer.scaler)
TrainFeatures == engineer_features(Get1(trainer.df))

\* Dimension d holds the same number in every row of the feature matrix.
ConstantDimension(X, d) ==
    /\ X[1][d] # NaN
    /\ \A r \in 1..Len(X) : X[r][d] = X[1][d]

\* C24: training on a dataset in which a style dimension is constant over
\* all rows (for one, 50.0 because none of its columns exist) gets through
\* the scaler without dividing by zero: the constant column is scaled with
\* scale = 1, every row's standardized value for it is 0, and training
\* ends in an error only for a reason other than the constant column.
C24_ConstantDimensionScaledByOne ==
    ScalerFitted =>
        LET X == TrainFeatures
            fitted == Get1(trainer.scaler)
            X_scaled == Get1(trainer.X_scaled)
        IN  /\ \A d \in 1..Len(Dimensions) :
                   ConstantDimension(X, d) =>
                       /\ fitted.scale_[d] = [num |-> 1, den |-> 1]
                       /\ \A r \in 1..Len(X) :
                              /\ X_scaled[r][d] # NaNScaled
                              /\ X_scaled[r][d].num = 0
                              /\ X_scaled[r][d].den_sq # 0
            /\ trainer.pc = "crashed" =>
                   \/ \E r \in 1..Len(X) : HasNaN(X[r])
                   \/ Len(X) < trainer.n_clusters

\* Training got through on rows that differ in pace and have no column of
\* physicality: physicality is 50 in every row and scaled by 1, pace is not.
C24_Witness ==
    /\ trainer.pc = "trained"
    /\ Len(TrainFeatures) >= 2
    /\ \A r \in 1..Len(TrainFeatures) : TrainFeatures[r][6] = 50 * Unit
    /\ Get1(trainer.scaler).scale_[6] = [num |-> 1, den |-> 1]
    /\ Get1(trainer.scaler).scale_[1] # [num |-> 1, den |-> 1]
    /\ Get1(trainer.X_scaled)[1][1].num # 0
    /\ Get1(trainer.X_scaled)[1][6].num = 0

-----------------------------------------------------------------------------
(* Claims about /player and /cluster side by side *)

\* The row /player selected, and its attribute values as a request body:
\* the columns the table has, so that what the row lacks is left out.
ProfileRow == RowToDict(Get1(player_data), resp.locals.player_row)

InRange(attrs) == \A a \in DOMAIN attrs : attrs[a] # NaN /\ attrs[a] >= 0 /\ attrs[a] <= 100

\* A /cluster request with the selected row's values as its body was
\* answered earlier.
ClusterAskedForRow ==
    /\ ~IsNone(served)
    /\ Get1(served).op = "cluster"
    /\ Get1(served).req = ProfileRow

\* C25: for every player row whose attribute values lie in [0, 100], the
\* cluster index and the style /player/{name} reports for the row are the
\* ones /cluster returns for the row's attribute values as request body,
\* the attributes the row lacks left out of the body.
C25_ProfileAgreesWithCluster ==
    (Answered("player") /\ InRange(ProfileRow) /\ ClusterAskedForRow) =>
        /\ Get1(served).status = 200
        /\ Get1(served).body.cluster_id = resp.body.cluster_id
        /\ Get1(served).body.style = resp.body.style

\* The second row of a table of two, holding one of the two attributes
\* at 100 and the other at 0, asked for by name after /cluster answered
\* its values with a cluster other than the first.
C25_Witness ==
    /\ Answered("player")
    /\ ClusterAskedForRow
    /\ NRows(Get1(player_data)) = 2
    /\ resp.locals.player_row = 2
    /\ DOMAIN ProfileRow = {"movement_acceleration", "power_strength"}
    /\ ProfileRow["movement_acceleration"] # ProfileRow["power_strength"]
    /\ resp.body.cluster_id # 0

-----------------------------------------------------------------------------
(* Claims about the statistics of training *)

Trained == ~IsNone(trainer.stats)
TrainStats == Get1(trainer.stats)

\* The rows the cluster column of df puts in cluster_id
RowsOfCluster(cluster_id) ==
    {r \in 1..NRows(Get1(trainer.df)) : Get1(trainer.cluster)[r] = cluster_id}

\* C26: the statistics train returns have exactly one entry per cluster
\* index 0 .. n_clusters - 1, every player row is counted in exactly one
\* cluster, and the counts of the clusters sum to the number of rows of
\* the dataset.
C26_EveryRowCountedOnce ==
    Trained =>
        /\ DOMAIN TrainStats = 0..(trainer.n_clusters - 1)
        /\ \A r \in 1..NRows(Get1(trainer.df)) :
               Get1(trainer.cluster)[r] \in DOMAIN TrainStats
        /\ \A cluster_id \in DOMAIN TrainStats :
               TrainStats[cluster_id].count = Cardinality(RowsOfCluster(cluster_id))
        /\ \A c1, c2 \in DOMAIN TrainStats :
               c1 # c2 =>
                   \A i \in 1..Len(TrainStats[c1].sample_players),
                      j \in 1..Len(TrainStats[c2].sample_players) :
                       TrainStats[c1].sample_players[i] # TrainStats[c2].sample_players[j]
        /\ SumSeq([k \in 1..trainer.n_clusters |-> TrainStats[k - 1].count])
               = NRows(Get1(trainer.df))

\* Five rows trained into three clusters, two of them with rows and the
\* first one empty.
C26_Witness ==
    /\ Trained
    /\ trainer.n_clusters = 3
    /\ NRows(Get1(trainer.df)) = 5
    /\ TrainStats[0].count = 0
    /\ TrainStats[1].count = 3
    /\ TrainStats[2].count = 2

-----------------------------------------------------------------------------
(* explore_data.py: one run of the script.  The dataset is FC26.csv of the *)
(* current directory: missing, unreadable, or a table of which the script  *)
(* reads the column names, in order, and the number of rows.               *)

\* str.lower() of one character and of a string
UpperCase == "ABCDEFGHIJKLMNOPQRSTUVWXYZ"
LowerCase == "abcdefghijklmnopqrstuvwxyz"
LowerChar(c) ==
    IF \E i \in 1..Len(UpperCase) : SubSeq(UpperCase, i, i) = c
    THEN LET i == CHOOSE i \in 1..Len(UpperCase) : SubSeq(UpperCase, i, i) = c
         IN  SubSeq(LowerCase, i, i)
    ELSE c
RECURSIVE StrLower(_)
StrLower(str) ==
    IF Len(str) = 0 THEN ""
    ELSE LowerChar(SubSeq(str, 1, 1)) \o StrLower(SubSeq(str, 2, Len(str)))

\* sub in str, for strings
StrIn(sub, str) ==
    \E i \in 1..(Len(str) - Len(sub) + 1) : SubSeq(str, i, i + Len(sub) - 1) = sub

\* str[:4]
FirstFour(str) == SubSeq(str, 1, Min(4, Len(str)))

\* The keys of required_attributes, in dict order
RequiredDimensions ==
    <<"Pace", "Dribbling", "Creativity", "Finishing", "Defense", "Physicality">>

\* explore_data.py required_attributes
required_attributes == <<
    <<"movement_acceleration", "movement_sprint_speed", "acceleration", "sprint_speed", "pace">>,
    <<"skill_dribbling", "skill_ball_control", "movement_agility", "movement_balance",
      "dribbling", "ball_control", "agility", "balance">>,
    <<"attacking_short_passing", "skill_long_passing", "mentality_vision", "skill_curve",
      "short_passing", "long_passing", "vision", "curve">>,
    <<"attacking_finishing", "power_shot_power", "mentality_positioning",
      "finishing", "shot_power", "positioning">>,
    <<"mentality_interceptions", "defending_standing_tackle",
      "defending_sliding_tackle", "mentality_aggression",
      "interceptions", "standing_tackle", "sliding_tackle", "aggression",
      "defensive_awareness">>,
    <<"power_strength", "power_stamina", "power_jumping",
      "strength", "stamina", "jumping">> >>

ColumnsOf(file) == {file.columns[i] : i \in 1..Len(file.columns)}

\* found of the loop over required_attributes, for its k-th dimension
FoundColumns(file, k) ==
    LET InFrame(col) == col \in ColumnsOf(file)
    IN  SelectSeq(required_attributes[k], InFrame)

\* found_mapping after the loop
FoundMapping(file) ==
    [dimension \in {RequiredDimensions[k] : k \in {j \in 1..Len(RequiredDimensions) :
                                                     FoundColumns(file, j) # <<>>}} |->
        FoundColumns(file, CHOOSE k \in 1..Len(RequiredDimensions) :
                               RequiredDimensions[k] = dimension)]

\* missing_dimensions after the loop
MissingDimensions(file) ==
    LET Missing(dimension) == dimension \notin DOMAIN FoundMapping(file)
    IN  SelectSeq(RequiredDimensions, Missing)

\* The columns the search for similar names takes for every missing
\* dimension, keeping only the first five to print.  keywords is
\* dimension.lower(), and dimension is the variable of the loop over
\* required_attributes, which has ended: it holds the last key.
PossibleMatches(file) ==
    LET dimension == RequiredDimensions[Len(RequiredDimensions)]
        keywords == StrLower(dimension)
        Similar(col) == StrIn(FirstFour(keywords), StrLower(col))
        matches == SelectSeq(file.columns, Similar)
    IN  [i \in 1..Len(MissingDimensions(file)) |->
            [dim |-> MissingDimensions(file)[i], matches |-> Head5(matches)]]

\* column_mapping.txt as the script writes it
ColumnMappingFile(file) ==
    [total_players |-> file.nrows,
     total_columns |-> Len(file.columns),
     found_mapping |-> FoundMapping(file),
     all_columns |-> file.columns]

\* The script started in a directory with this FC26.csv
NewExplorer(file) ==
    [pc |-> "start", file |-> file, stdout |-> <<>>, ret |-> None,
     found_mapping |-> <<>>, missing_dimensions |-> <<>>, possible_matches |-> <<>>,
     column_mapping |-> None]

\* explore_dataset(): a file that is missing or cannot be read is reported
\* and the function returns None; else the columns are checked, the file
\* column_mapping.txt is written and (df, found_mapping) returned.
ExploreDataset ==
    /\ explorer.pc = "start"
    /\ LET file == explorer.file
       IN  explorer' =
               IF file.kind = "missing"
               THEN [explorer EXCEPT !.pc = "returned",
                                     !.stdout = <<"Error: FC26.csv not found in current directory">>]
               ELSE IF file.kind = "unreadable"
               THEN [explorer EXCEPT !.pc = "returned",
                                     !.stdout = <<"Error loading file">>]
               ELSE [explorer EXCEPT
                        !.pc = "returned",
                        !.stdout = <<"Successfully loaded", "Column mapping saved!",
                                     "Exploration complete!">>,
                        !.found_mapping = FoundMapping(file),
                        !.missing_dimensions = MissingDimensions(file),
                        !.possible_matches = PossibleMatches(file),
                        !.column_mapping = Some(ColumnMappingFile(file)),
                        !.ret = Some([df |-> file, found_mapping |-> FoundMapping(file)])]
    /\ UNCHANGED <<df, reduced, fs, scaler, kmeans, cluster_labels, player_data, phase,
                   resp, served, trainer>>

\* df, mapping = explore_dataset() of __main__: unpacking None raises
\* TypeError, and the script ends with a traceback.
MainUnpack ==
    /\ explorer.pc = "returned"
    /\ explorer' = [explorer EXCEPT !.pc = IF IsNone(explorer.ret) THEN "raised" ELSE "done"]
    /\ UNCHANGED <<df, reduced, fs, scaler, kmeans, cluster_labels, player_data, phase,
                   resp, served, trainer>>

\* columns of a dataset of the bounded instances
MaxExploreColumns == 6

\* The columns a dataset draws from, in file order: names only exploration
\* lists (pace, defensive_awareness), one both scripts list, and names that
\* hold "pace" or "phys" without being listed.
ExploreColumnPool ==
    <<"pace", "PACE", "defensive_awareness", "power_strength",
      "physic", "Phys_a", "phys_b", "phys_c", "phys_d", "PHYS_E">>

\* Every dataset of one row over at most maxcols of these columns
ExploreFiles(maxcols) ==
    {[kind |-> "csv", nrows |-> 1,
      columns |-> LET Kept(i) == i \in I
                  IN  [j \in 1..Cardinality(I) |->
                          ExploreColumnPool[SelectSeq([i \in 1..Len(ExploreColumnPool) |-> i],
                                                      Kept)[j]]]] :
        I \in {J \in SUBSET (1..Len(ExploreColumnPool)) : Cardinality(J) <= maxcols}}

\* The same dataset as training reads it: every column numeric
TrainingFrame(file) ==
    IF file.kind # "csv" THEN NoTable
    ELSE [attrcols |-> ColumnsOf(file), namecols |-> {},
          rows |-> [r \in 1..file.nrows |->
                       [attrs |-> [c \in ColumnsOf(file) |-> TrainValue(r)], names |-> <<>>]]]

InitExplore ==
    /\ explorer \in {NewExplorer(file) :
                        file \in {[kind |-> "missing"], [kind |-> "unreadable"]}
                                 \cup ExploreFiles(MaxExploreColumns)}
    /\ df = TrainingFrame(explorer.file)
    /\ reduced = NoCalls
    /\ fs = NoFiles
    /\ scaler = None
    /\ kmeans = None
    /\ cluster_labels = None
    /\ player_data = None
    /\ phase = "startup"
    /\ resp = NoResponse
    /\ served = None
    /\ trainer = NoTrainer

\* The script, and training's engineer_features on the same dataset
NextExplore ==
    \/ ExploreDataset
    \/ MainUnpack
    \/ (explorer.file.kind = "csv" /\ IsNone(reduced.engineered) /\ CallEngineerFeatures)

SpecExplore == InitExplore /\ [][NextExplore]_vars

-----------------------------------------------------------------------------
(* Claims about exploration, under SpecExplore *)

Explored == explorer.pc \in {"returned", "done"} /\ explorer.file.kind = "csv"

\* C27: whenever explore_dataset reports a style dimension as found for a
\* dataset, engineer_features on the same dataset finds at least one
\* column for that dimension and does not fall back to the default 50.0:
\* the dimension is among the feature columns and its value in every row
\* is the mean of the row's columns.
C27_FoundByExplorationFoundByTraining ==
    Explored =>
        \A k \in 1..Len(RequiredDimensions) :
            RequiredDimensions[k] \in DOMAIN explorer.found_mapping =>
                /\ TrainAvailable(df, k) # <<>>
                /\ \E i \in 1..Len(feature_columns(df)) : feature_columns(df)[i] = k
                /\ EngineeredCalled =>
                       /\ Len(Get1(reduced.engineered)) = NRows(df)
                       /\ \A r \in 1..NRows(df) :
                              Get1(reduced.engineered)[r][k] = TrainValue(r) * Unit

ScriptEnded == explorer.pc \in {"done", "raised"}

\* C28: when the dataset file is missing or unreadable, the run of the
\* exploration script reports the error and ends without raising an
\* exception and without writing column_mapping.txt.
C28_MissingFileEndsQuietly ==
    (ScriptEnded /\ explorer.file.kind \in {"missing", "unreadable"}) =>
        /\ explorer.stdout # <<>>
        /\ explorer.pc = "done"
        /\ IsNone(explorer.column_mapping)

\* The columns whose lower-cased name holds the first four characters of
\* the lower-cased name of dimension dim
ColumnsNamedLike(file, dim) ==
    LET Similar(col) == StrIn(FirstFour(StrLower(dim)), StrLower(col))
    IN  SelectSeq(file.columns, Similar)

\* C29: for each missing dimension, the possible matches explore_dataset
\* suggests are exactly the dataset columns whose lower-cased name
\* contains the first four characters of that dimension's own lower-cased
\* name, up to five of them.
C29_MatchesOfTheMissingDimension ==
    Explored =>
        /\ Len(explorer.possible_matches) = Len(explorer.missing_dimensions)
        /\ \A i \in 1..Len(explorer.possible_matches) :
               /\ explorer.possible_matches[i].dim = explorer.missing_dimensions[i]
               /\ explorer.possible_matches[i].matches =
                      Head5(ColumnsNamedLike(explorer.file, explorer.missing_dimensions[i]))

====
